---- MODULE Spec2Model ----
(***************************************************************************)
(* Enrollment and progress tracking of the StudyNotion backend:            *)
(* the payment webhook (auth middleware, verifySignature, enrolleStudent), *)
(* capturePayment, the mark-complete handlers, getProgressPercentage,       *)
(* createRating, deleteSubSection, deleteSection, deleteCourse, editCourse, *)
(* deleteProfile, the role middlewares of the routes and the password      *)
(* reset, over a small model of the Mongoose collections they read and     *)
(* write.                                                                  *)
(***************************************************************************)
EXTENDS Integers, Sequences, FiniteSets, TLC

\* ------------------------------------------------------------------------
\* Bounds of the model
\* ------------------------------------------------------------------------

\* number of webhook deliveries that pass verification and start a fulfilment
MaxDeliveries == 2

\* number of RatingAndReview documents
MaxReviews == 2

\* number of password reset tokens generated
MaxTokens == 2

\* minutes the clock runs
MaxTime == 6

Users == {"u1", "u2"}
Instructors == {"t1"}
Accounts == Users \cup Instructors
Courses == {"c1", "c2"}
Sections == {"sA", "sB", "sC"}
Lessons == {"l1", "l2", "l3"}
Procs == {"p1", "p2"}
Layouts == {"compact", "spaced"}
Categories == {"k1"}

NULL == "null"

\* natural (insertion) order of the Course collection
CourseOrder == <<"c1", "c2">>

\* ------------------------------------------------------------------------
\* State
\* ------------------------------------------------------------------------
VARIABLES
  strictQuery,     \* Mongoose build option: filters on paths outside the schema are stripped
  objectFilter,    \* Mongoose build: a query filter that is not an object is an error
  Course,          \* Course collection: id -> document
  User,            \* User collection: id -> document
  CourseProgress,  \* courseProgress collection in insertion order; _id is the index
  Section,         \* Section collection: id -> document
  SubSection,      \* ids of the SubSection documents that exist
  hook,            \* the webhook requests being handled, one per slot
  deliveries,      \* number of fulfilments started
  stopped,         \* (courseId, userId) pairs one of whose fulfilments stopped midway
  res,             \* the response sent last
  orders,          \* notes of the orders the payment processor was asked to create
  mark,            \* the mark-complete requests being handled, one per slot
  Category,        \* Category collection: id -> document
  RatingAndReview, \* RatingAndReview collection in insertion order
  ResetPassword,   \* the ResetPassword controller the server has loaded, NULL before
  now,             \* Date.now(), in minutes
  mails,           \* the password reset mails sent so far, in order
  Credentials      \* password, token and resetPasswordExpires of the User documents

vars == <<strictQuery, objectFilter, Course, User, CourseProgress, Section, SubSection,
          hook, deliveries, stopped, res, orders, mark, Category, RatingAndReview,
          ResetPassword, now, mails, Credentials>>

build == <<strictQuery, objectFilter>>

db == <<Course, User, CourseProgress, Section, SubSection>>

\* what only the password reset touches
cred == <<ResetPassword, now, mails, Credentials>>

\* what the webhook, the progress handlers and deleteSubSection never touch
ext == <<orders, mark, Category, RatingAndReview, cred>>

\* ------------------------------------------------------------------------
\* Helpers
\* ------------------------------------------------------------------------

Count(x, s) == Cardinality({i \in DOMAIN s : s[i] = x})

\* an includes that compares by identity: a stored ObjectId is never the id string
IncludesByIdentity(arr, x) == FALSE

\* Array.prototype.includes / MongooseArray.includes
Includes(arr, x) == \E i \in DOMAIN arr : arr[i] = x

RECURSIVE Pull(_, _)
\* $pull: remove every occurrence of x
Pull(s, x) ==
  IF s = <<>> THEN <<>>
  ELSE IF Head(s) = x THEN Pull(Tail(s), x)
       ELSE <<Head(s)>> \o Pull(Tail(s), x)

Response(handler, status, data) ==
  [handler |-> handler, status |-> status, data |-> data]

Is2xx(status) == status >= 200 /\ status < 300

\* ------------------------------------------------------------------------
\* Mongoose: schemas, casting of documents and of query filters
\* ------------------------------------------------------------------------

\* paths of the courseProgress schema
CourseProgressPaths == {"_id", "courseId", "completedVideos"}

\* paths of the RatingAndReview schema
RatingPaths == {"_id", "user", "rating", "review"}

\* paths of the Course schema that the handlers use
CoursePaths == {"_id", "courseName", "courseContent", "studentsEnrolled"}

\* new Model(obj) under the default strict schema: keys outside the schema are dropped
StrictDoc(obj, paths) == [f \in (DOMAIN obj) \cap paths |-> obj[f]]

\* Query casting: with strictQuery the conditions on unknown paths are removed,
\* without it they are sent to the database as written
CastFilter(filter, paths) ==
  IF strictQuery THEN [f \in (DOMAIN filter) \cap paths |-> filter[f]]
  ELSE filter

\* a document matches when it stores every field of the filter with that value
Matches(doc, filter) ==
  \A f \in DOMAIN filter : f \in DOMAIN doc /\ doc[f] = filter[f]

\* Query.merge of a string: its own enumerable keys are the character indices
StringFilter(str) == [f \in {"0"} |-> str]

Min(S) == CHOOSE x \in S : \A y \in S : x <= y

\* the stored fields of the i-th courseProgress document
ProgressDoc(i) == CourseProgress[i].fields

\* CourseProgress.findOne(filter): index of the first match, 0 for null
FindOneProgress(filter) ==
  LET f == CastFilter(filter, CourseProgressPaths)
      m == {i \in DOMAIN CourseProgress : Matches(ProgressDoc(i), f)}
  IN IF m = {} THEN 0 ELSE Min(m)

\* Course.findOne(filter): id of the first match in natural order, NULL for null
FindOneCourse(filter) ==
  LET f == CastFilter(filter, CoursePaths)
      m == {i \in DOMAIN CourseOrder :
              /\ Course[CourseOrder[i]].exists
              /\ Matches([_id |-> CourseOrder[i]], f)}
  IN IF m = {} THEN NULL ELSE CourseOrder[Min(m)]

\* ------------------------------------------------------------------------
\* The webhook request
\* ------------------------------------------------------------------------

webhookSecret == "12345678"

\* the bytes of a request body: the notes it carries and its whitespace layout
Bodies == [courseId : Courses, userId : Users, layout : Layouts]

\* crypto.createHmac("sha256", key).update(data).digest("hex"), collision free
Hmac(key, data) == <<key, data>>

\* the signature headers tried with body b: the processor's signature of the
\* raw bytes, the signature of the re-serialised body, the signature of another
\* payload (b is then a tampered copy of it), and a signature under a wrong key
SignaturesFor(b) ==
  {Hmac(webhookSecret, b),
   Hmac(webhookSecret, [b EXCEPT !.layout = "compact"]),
   Hmac("guess", b)}
  \cup {Hmac(webhookSecret, o) : o \in {x \in Bodies : x.layout = b.layout /\ x # b}}

\* express.json(): the parsed body keeps the values and forgets the layout
ParseJson(raw) == [courseId |-> raw.courseId, userId |-> raw.userId]

\* JSON.stringify(obj): the compact serialisation
Stringify(obj) ==
  [courseId |-> obj.courseId, userId |-> obj.userId, layout |-> "compact"]

Requests ==
  UNION {[body : {b}, signature : SignaturesFor(b), token : BOOLEAN] : b \in Bodies}

\* a comparison that checks the key of the signature and not what was signed
SignatureMatchesAnyBody(req) == req.signature[1] = webhookSecret

\* the comparison of verifySignature: signature === digest
SignatureMatches(req) ==
  req.signature = Hmac(webhookSecret, Stringify(ParseJson(req.body)))

\* ------------------------------------------------------------------------
\* Initial state
\* ------------------------------------------------------------------------

\* the sections of the course: two sections of 2 and 1 lessons, or one empty section
Contents == {<<"sA", "sB">>, <<"sC">>}

InitSubSection ==
  [s \in Sections |->
     IF s = "sA" THEN <<"l1", "l2">> ELSE IF s = "sB" THEN <<"l3">> ELSE <<>>]

\* bcrypt.hash(password, 10): a one-way image of the password
Hash(password) == <<"bcrypt", password>>

\* the value of a path that was never set
Unset == "undefined"

\* the values a Date path holds: a time, null, or nothing
Date(t) == [type |-> "date", value |-> t]
Null == [type |-> "null"]
Undefined == [type |-> "undefined"]

\* the authentication paths of a User that has no reset pending and never had
NoReset(hashed) ==
  [password |-> hashed, token |-> Unset, resetPasswordExpires |-> Undefined]

IdleMark ==
  [pc |-> "idle", handler |-> NULL, userId |-> NULL, courseId |-> NULL,
   subSectionId |-> NULL, found |-> 0]

IdleHook ==
  [pc |-> "idle", courseId |-> NULL, userId |-> NULL, enrolledCourse |-> NULL,
   enrolledStudent |-> FALSE, newId |-> 0, overlapped |-> FALSE]

Init ==
  /\ strictQuery \in BOOLEAN
  /\ objectFilter \in BOOLEAN
  /\ \E content \in Contents :
       Course = [c \in Courses |->
                   [exists |-> c = "c1", studentsEnrolled |-> <<>>,
                    courseContent |-> IF c = "c1" THEN content ELSE <<>>,
                    instructor |-> IF c = "c1" THEN "t1" ELSE NULL,
                    category |-> IF c = "c1" THEN "k1" ELSE NULL,
                    ratingAndReviews |-> <<>>]]
  /\ User = [u \in Accounts |->
               [exists |-> TRUE,
                courses |-> IF u \in Instructors THEN <<"c1">> ELSE <<>>,
                courseProgress |-> <<>>]]
  /\ CourseProgress = <<>>
  /\ Section = [s \in Sections |-> [exists |-> TRUE, subSection |-> InitSubSection[s]]]
  /\ SubSection = Lessons
  /\ hook = [p \in Procs |-> IdleHook]
  /\ deliveries = 0
  /\ stopped = {}
  /\ res = Response("none", 0, NULL)
  /\ orders = {}
  /\ mark = [p \in Procs |-> IdleMark]
  /\ Category = [k \in Categories |-> [courses |-> <<"c1">>]]
  /\ RatingAndReview = <<>>
  /\ ResetPassword = NULL
  /\ now = 0
  /\ mails = <<>>
  /\ Credentials = [u \in Accounts |-> NoReset(Hash("secret"))]

\* ------------------------------------------------------------------------
\* The webhook: auth middleware, verifySignature, enrolleStudent
\* ------------------------------------------------------------------------

InFlight(p) == hook[p].pc \in {"s1", "s2", "s3", "s4", "s5"}

\* POST /verifyPayment: auth, then verifySignature up to the call of enrolleStudent
Deliver(p, req) ==
  /\ ~InFlight(p)
  /\ IF ~req.token
     THEN \* auth: token missing or invalid
          /\ res' = Response("auth", 401, NULL)
          /\ UNCHANGED <<hook, deliveries>>
     ELSE IF ~SignatureMatches(req)
     THEN /\ res' = Response("verifySignature", 400, NULL)
          /\ UNCHANGED <<hook, deliveries>>
     ELSE LET notes == ParseJson(req.body)
              same(q) == /\ q # p
                         /\ InFlight(q)
                         /\ hook[q].courseId = notes.courseId
                         /\ hook[q].userId = notes.userId
          IN /\ deliveries < MaxDeliveries
             /\ deliveries' = deliveries + 1
             /\ hook' = [q \in Procs |->
                          IF q = p
                          THEN [IdleHook EXCEPT !.pc = "s1",
                                                !.courseId = notes.courseId,
                                                !.userId = notes.userId,
                                                !.overlapped = \E r \in Procs : same(r)]
                          ELSE IF same(q) THEN [hook[q] EXCEPT !.overlapped = TRUE]
                          ELSE hook[q]]
             /\ UNCHANGED res
  /\ UNCHANGED <<build, db, stopped, ext>>

\* the slot of a request that has been answered
DoneHook(h) ==
  [IdleHook EXCEPT !.pc = "done", !.courseId = h.courseId, !.userId = h.userId,
                   !.overlapped = h.overlapped]

\* step 1: Course.findOneAndUpdate(courseId, {$push: {studentsEnrolled: userId}}),
\* the filter being the courseId string itself
Step1(p) ==
  /\ hook[p].pc = "s1"
  /\ IF objectFilter
     THEN \* the query is rejected, enrolleStudent rethrows, verifySignature answers 500
          /\ res' = Response("verifySignature", 500, NULL)
          /\ hook' = [hook EXCEPT ![p] = DoneHook(hook[p])]
          /\ UNCHANGED Course
     ELSE LET c == FindOneCourse(StringFilter(hook[p].courseId))
          IN /\ Course' = IF c = NULL THEN Course
                          ELSE [Course EXCEPT ![c].studentsEnrolled =
                                                Append(@, hook[p].userId)]
             /\ hook' = [hook EXCEPT ![p].pc = "s2", ![p].enrolledCourse = c]
             /\ UNCHANGED res
  /\ UNCHANGED <<build, User, CourseProgress, Section, SubSection, deliveries, stopped,
                 ext>>

\* step 2: User.findByIdAndUpdate(userId, {$push: {courses: courseId}})
Step2(p) ==
  /\ hook[p].pc = "s2"
  /\ LET u == hook[p].userId
     IN /\ User' = IF User[u].exists
                   THEN [User EXCEPT ![u].courses = Append(@, hook[p].courseId)]
                   ELSE User
        /\ hook' = [hook EXCEPT ![p].pc = "s3", ![p].enrolledStudent = User[u].exists]
  /\ UNCHANGED <<build, Course, CourseProgress, Section, SubSection,
                 deliveries, stopped, res, ext>>

\* new CourseProgress({userID, courseID}): the document as the schema keeps it,
\* with the constructor's arguments remembered in made
NewCourseProgress(userId, courseId) ==
  [fields |-> StrictDoc([userID |-> userId, courseID |-> courseId], CourseProgressPaths),
   completedVideos |-> <<>>,
   made |-> [userID |-> userId, courseID |-> courseId]]

\* step 3: newCourseProgress.save()
Step3(p) ==
  /\ hook[p].pc = "s3"
  /\ CourseProgress' =
       Append(CourseProgress, NewCourseProgress(hook[p].userId, hook[p].courseId))
  /\ hook' = [hook EXCEPT ![p].pc = "s4", ![p].newId = Len(CourseProgress) + 1]
  /\ UNCHANGED <<build, Course, User, Section, SubSection,
                 deliveries, stopped, res, ext>>

\* step 4: User.findByIdAndUpdate(userId, {$push: {courseProgress: newCourseProgress._id}})
Step4(p) ==
  /\ hook[p].pc = "s4"
  /\ LET u == hook[p].userId
     IN User' = IF User[u].exists
                THEN [User EXCEPT ![u].courseProgress = Append(@, hook[p].newId)]
                ELSE User
  /\ hook' = [hook EXCEPT ![p].pc = "s5"]
  /\ UNCHANGED <<build, Course, CourseProgress, Section, SubSection,
                 deliveries, stopped, res, ext>>

\* a mailSender whose catch throws the error again
MailSenderRethrows(mailOk) == ~mailOk

\* mailSender: sendMail runs inside try/catch and the catch only logs, so the
\* promise never rejects
MailSenderThrows(mailOk) == FALSE

\* step 5 and the response of verifySignature: enrolledCourse.courseName and
\* enrolledStudent.email throw on null
Step5(p, mailOk) ==
  /\ hook[p].pc = "s5"
  /\ res' = IF \/ hook[p].enrolledCourse = NULL
              \/ ~hook[p].enrolledStudent
              \/ MailSenderThrows(mailOk)
            THEN Response("verifySignature", 500, NULL)
            ELSE Response("verifySignature", 200,
                          IF mailOk THEN "mail sent" ELSE "mail failed")
  /\ hook' = [hook EXCEPT ![p] = DoneHook(hook[p])]
  /\ UNCHANGED <<build, db, deliveries, stopped, ext>>

\* a fulfilment stops before its next step: the storage call throws (500) or
\* the process dies (no response)
Abort(p, crash) ==
  /\ InFlight(p)
  /\ stopped' = stopped \cup {<<hook[p].courseId, hook[p].userId>>}
  /\ res' = IF crash THEN Response("crash", 0, NULL)
            ELSE Response("verifySignature", 500, NULL)
  /\ hook' = [hook EXCEPT ![p] = IdleHook]
  /\ UNCHANGED <<build, db, deliveries, ext>>

\* ------------------------------------------------------------------------
\* capturePayment
\* ------------------------------------------------------------------------

\* a course_id that is not the 24 hex characters of an ObjectId
Malformed == "xyz"

\* the course_id of a request body: an id, a string that is no id, or none
CourseIds == Courses \cup {Malformed, NULL}

\* a capturePayment that enrols the student as soon as the order is created
capturePaymentEnrols(userId, course_id, providerOk) ==
  /\ course_id \in Courses /\ Course[course_id].exists /\ providerOk
  /\ res' = Response("capturePayment", 200, "order")
  /\ orders' = orders \cup {<<course_id, userId>>}
  /\ Course' = [Course EXCEPT ![course_id].studentsEnrolled = Append(@, userId)]
  /\ UNCHANGED <<build, User, CourseProgress, Section, SubSection, hook, deliveries,
                 stopped, mark, Category, RatingAndReview, cred>>

\* a capturePayment without the check of studentsEnrolled
capturePaymentAnyStudent(userId, course_id, providerOk) ==
  /\ course_id \in Courses /\ Course[course_id].exists /\ providerOk
  /\ res' = Response("capturePayment", 200, "order")
  /\ orders' = orders \cup {<<course_id, userId>>}
  /\ UNCHANGED <<build, db, hook, deliveries, stopped, mark, Category, RatingAndReview, cred>>

\* POST /capturePayment (auth, isStudent); userId is req.user.id, providerOk
\* tells whether instance.orders.create resolves
capturePayment(userId, course_id, providerOk) ==
  /\ IF course_id = NULL
     THEN /\ res' = Response("capturePayment", 200, "ValidationError")
          /\ UNCHANGED orders
     ELSE IF course_id = Malformed
     THEN \* Course.findById rejects with a CastError
          /\ res' = Response("capturePayment", 500, "CastError")
          /\ UNCHANGED orders
     ELSE IF ~Course[course_id].exists
     THEN /\ res' = Response("capturePayment", 200, "CourseNotFound")
          /\ UNCHANGED orders
     ELSE IF Includes(Course[course_id].studentsEnrolled, userId)
     THEN /\ res' = Response("capturePayment", 200, "AlreadyEnrolled")
          /\ UNCHANGED orders
     ELSE IF ~providerOk
     THEN /\ res' = Response("capturePayment", 500, "ProviderError")
          /\ UNCHANGED orders
     ELSE /\ res' = Response("capturePayment", 200, "order")
          /\ orders' = orders \cup {<<course_id, userId>>}
  /\ UNCHANGED <<build, db, hook, deliveries, stopped, mark, Category, RatingAndReview, cred>>

\* ------------------------------------------------------------------------
\* Progress tracker
\* ------------------------------------------------------------------------

\* CourseProgress.js updateCourseProgress; userId is req.user.id
updateCourseProgress(userId, courseId, subsectionId) ==
  /\ IF subsectionId \notin SubSection
     THEN /\ res' = Response("updateCourseProgress", 404, "Invalid subsection")
          /\ UNCHANGED CourseProgress
     ELSE LET i == FindOneProgress([courseID |-> courseId, userId |-> userId])
          IN IF i = 0
             THEN /\ res' = Response("updateCourseProgress", 404, "NotEnrolled")
                  /\ UNCHANGED CourseProgress
             ELSE IF Includes(CourseProgress[i].completedVideos, subsectionId)
             THEN /\ res' = Response("updateCourseProgress", 400, "AlreadyCompleted")
                  /\ UNCHANGED CourseProgress
             ELSE /\ CourseProgress' =
                       [CourseProgress EXCEPT ![i].completedVideos = Append(@, subsectionId)]
                  /\ res' = Response("updateCourseProgress", 200, NULL)
  /\ UNCHANGED <<build, Course, User, Section, SubSection, hook, deliveries, stopped,
                 ext>>

\* a markLectureAsComplete that writes the array with $set instead of $push
markLectureAsCompleteSets(userId, courseId, subSectionId) ==
  /\ LET i == FindOneProgress([userID |-> userId, courseID |-> courseId])
     IN IF i = 0
        THEN /\ res' = Response("markLectureAsComplete", 404, "NotEnrolled")
             /\ UNCHANGED CourseProgress
        ELSE /\ CourseProgress' =
                  [CourseProgress EXCEPT ![i].completedVideos = <<subSectionId>>]
             /\ res' = Response("markLectureAsComplete", 200, NULL)
  /\ UNCHANGED <<build, Course, User, Section, SubSection, hook, deliveries, stopped,
                 ext>>

\* Course.js markLectureAsComplete; userId is req.body.userId
markLectureAsComplete(userId, courseId, subSectionId) ==
  /\ LET filter == [userID |-> userId, courseID |-> courseId]
         i == FindOneProgress(filter)
     IN IF i = 0
        THEN /\ res' = Response("markLectureAsComplete", 404, "NotEnrolled")
             /\ UNCHANGED CourseProgress
        ELSE IF Includes(CourseProgress[i].completedVideos, subSectionId)
        THEN /\ res' = Response("markLectureAsComplete", 400, "AlreadyCompleted")
             /\ UNCHANGED CourseProgress
        ELSE /\ CourseProgress' =
                  [CourseProgress EXCEPT ![i].completedVideos = Append(@, subSectionId)]
             /\ res' = Response("markLectureAsComplete", 200, NULL)
  /\ UNCHANGED <<build, Course, User, Section, SubSection, hook, deliveries, stopped,
                 ext>>

\* the filter with which each mark-complete handler looks its record up
MarkFilter(handler, userId, courseId) ==
  IF handler = "updateCourseProgress"
  THEN [courseID |-> courseId, userId |-> userId]
  ELSE [userID |-> userId, courseID |-> courseId]

Marking(p) == mark[p].pc = "write"

\* a mark-complete request up to its write: the lookups and the includes check
\* of updateCourseProgress or markLectureAsComplete
MarkStart(p, handler, userId, courseId, subSectionId) ==
  /\ ~Marking(p)
  /\ LET i == FindOneProgress(MarkFilter(handler, userId, courseId))
     IN IF handler = "updateCourseProgress" /\ subSectionId \notin SubSection
        THEN /\ res' = Response(handler, 404, "Invalid subsection")
             /\ UNCHANGED mark
        ELSE IF i = 0
        THEN /\ res' = Response(handler, 404, "NotEnrolled")
             /\ UNCHANGED mark
        ELSE IF Includes(CourseProgress[i].completedVideos, subSectionId)
        THEN /\ res' = Response(handler, 400, "AlreadyCompleted")
             /\ UNCHANGED mark
        ELSE /\ mark' = [mark EXCEPT ![p] =
                           [pc |-> "write", handler |-> handler, userId |-> userId,
                            courseId |-> courseId, subSectionId |-> subSectionId,
                            found |-> i]]
             /\ UNCHANGED res
  /\ UNCHANGED <<build, db, hook, deliveries, stopped, orders, Category, RatingAndReview, cred>>

\* the write of a mark-complete request and its response: courseProgress.save()
\* sends the $push to the document that was loaded, findOneAndUpdate runs the
\* $push on the first document its filter matches now
MarkWrite(p) ==
  /\ Marking(p)
  /\ LET m == mark[p]
         i == IF m.handler = "updateCourseProgress" THEN m.found
              ELSE FindOneProgress(MarkFilter(m.handler, m.userId, m.courseId))
     IN /\ CourseProgress' =
             IF i = 0 THEN CourseProgress
             ELSE [CourseProgress EXCEPT ![i].completedVideos = Append(@, m.subSectionId)]
        /\ res' = Response(m.handler, 200, NULL)
  /\ mark' = [mark EXCEPT ![p] = IdleMark]
  /\ UNCHANGED <<build, Course, User, Section, SubSection, hook, deliveries, stopped,
                 orders, Category, RatingAndReview, cred>>

RECURSIVE SumLen(_)
\* lectures += sec.subSection.length over the populated sections
SumLen(secs) ==
  IF secs = <<>> THEN 0
  ELSE (IF Section[Head(secs)].exists THEN Len(Section[Head(secs)].subSection) ELSE 0)
       + SumLen(Tail(secs))

\* Math.round(completed / lectures * 100 * 100) / 100, in hundredths of a percent
Round2(completed, lectures) == (2 * completed * 10000 + lectures) \div (2 * lectures)

\* populate("courseID"): the Course a stored courseID path refers to, NULL when
\* the document has no such path or the Course is gone
PopulateCourseID(i) ==
  IF "courseID" \in CourseProgressPaths /\ "courseID" \in DOMAIN CourseProgress[i].fields
  THEN IF Course[CourseProgress[i].fields.courseID].exists
       THEN CourseProgress[i].fields.courseID ELSE NULL
  ELSE NULL

\* the response getProgressPercentage computes for (userId, courseId)
ProgressPercentage(userId, courseId) ==
  LET i == FindOneProgress([courseID |-> courseId, userId |-> userId])
  IN IF i = 0
     THEN Response("getProgressPercentage", 400, "NotFound")
     ELSE LET c == PopulateCourseID(i)
          IN IF c = NULL
             THEN \* populate rejects the path, or courseProgress.courseID is undefined
                  Response("getProgressPercentage", 500, NULL)
             ELSE LET lectures == SumLen(Course[c].courseContent)
                      completed == Len(CourseProgress[i].completedVideos)
                  IN Response("getProgressPercentage", 200,
                              IF lectures = 0
                              THEN (IF completed = 0 THEN "NaN" ELSE "Infinity")
                              ELSE Round2(completed, lectures))

\* CourseProgress.js getProgressPercentage; userId is req.user.id
getProgressPercentage(userId, courseId) ==
  /\ res' = ProgressPercentage(userId, courseId)
  /\ UNCHANGED <<build, db, hook, deliveries, stopped, ext>>

\* ------------------------------------------------------------------------
\* Course content
\* ------------------------------------------------------------------------

\* Subsection.js deleteSubSection
deleteSubSection(sectionId, subSectionId) ==
  /\ IF subSectionId \notin SubSection \/ ~Section[sectionId].exists
     THEN /\ res' = Response("deleteSubSection", 404, NULL)
          /\ UNCHANGED <<Section, SubSection>>
     ELSE /\ SubSection' = SubSection \ {subSectionId}
          /\ Section' = [Section EXCEPT ![sectionId].subSection = Pull(@, subSectionId)]
          /\ res' = Response("deleteSubSection", 200, NULL)
  /\ UNCHANGED <<build, Course, User, CourseProgress, hook, deliveries, stopped, ext>>

\* ------------------------------------------------------------------------
\* Ratings
\* ------------------------------------------------------------------------

\* RatingAndReview.findOne(filter): index of the first match, 0 for null
FindOneReview(filter) ==
  LET f == CastFilter(filter, RatingPaths)
      m == {i \in DOMAIN RatingAndReview : Matches(RatingAndReview[i].fields, f)}
  IN IF m = {} THEN 0 ELSE Min(m)

\* RatingAndReview.js createRating; userId is req.user.id, rating and review given
createRating(userId, courseId) ==
  /\ Len(RatingAndReview) < MaxReviews
  /\ IF ~(Course[courseId].exists /\ Includes(Course[courseId].studentsEnrolled, userId))
     THEN /\ res' = Response("createRating", 403, NULL)
          /\ UNCHANGED <<Course, RatingAndReview>>
     ELSE IF FindOneReview([course |-> courseId, user |-> userId]) # 0
     THEN /\ res' = Response("createRating", 409, NULL)
          /\ UNCHANGED <<Course, RatingAndReview>>
     ELSE /\ RatingAndReview' =
               Append(RatingAndReview,
                      [fields |-> StrictDoc([user |-> userId, course |-> courseId],
                                            RatingPaths),
                       made |-> [user |-> userId, course |-> courseId]])
          /\ Course' = [Course EXCEPT ![courseId].ratingAndReviews =
                                        Append(@, Len(RatingAndReview) + 1)]
          /\ res' = Response("createRating", 201, NULL)
  /\ UNCHANGED <<build, User, CourseProgress, Section, SubSection, hook, deliveries,
                 stopped, orders, mark, Category, cred>>

\* slot p holds a createRating request that passed its checks
Rating(p) == mark[p].pc = "create"

\* createRating up to its write: the lookups of the Course and of an earlier review
RatingStart(p, userId, courseId) ==
  /\ ~Rating(p)
  /\ Len(RatingAndReview) + Cardinality({q \in Procs : Rating(q)}) < MaxReviews
  /\ IF ~(Course[courseId].exists /\ Includes(Course[courseId].studentsEnrolled, userId))
     THEN /\ res' = Response("createRating", 403, NULL)
          /\ UNCHANGED mark
     ELSE IF FindOneReview([course |-> courseId, user |-> userId]) # 0
     THEN /\ res' = Response("createRating", 409, NULL)
          /\ UNCHANGED mark
     ELSE /\ mark' = [mark EXCEPT ![p] =
                        [IdleMark EXCEPT !.pc = "create", !.handler = "createRating",
                                         !.userId = userId, !.courseId = courseId]]
          /\ UNCHANGED res
  /\ UNCHANGED <<build, db, hook, deliveries, stopped, orders, Category, RatingAndReview,
                 cred>>

\* the writes of createRating and its response: RatingAndReview.create and the
\* $push of the new id to the course
RatingWrite(p) ==
  /\ Rating(p)
  /\ LET m == mark[p]
     IN /\ RatingAndReview' =
             Append(RatingAndReview,
                    [fields |-> StrictDoc([user |-> m.userId, course |-> m.courseId],
                                          RatingPaths),
                     made |-> [user |-> m.userId, course |-> m.courseId]])
        /\ Course' = IF Course[m.courseId].exists
                     THEN [Course EXCEPT ![m.courseId].ratingAndReviews =
                                           Append(@, Len(RatingAndReview) + 1)]
                     ELSE Course
  /\ res' = Response("createRating", 201, NULL)
  /\ mark' = [mark EXCEPT ![p] = IdleMark]
  /\ UNCHANGED <<build, User, CourseProgress, Section, SubSection, hook, deliveries,
                 stopped, orders, Category, cred>>

\* ------------------------------------------------------------------------
\* Deletion of a course and of an account
\* ------------------------------------------------------------------------

\* the elements of a list
Range(s) == {s[i] : i \in DOMAIN s}

\* a Course or User document that was deleted
NoCourse ==
  [exists |-> FALSE, studentsEnrolled |-> <<>>, courseContent |-> <<>>,
   instructor |-> NULL, category |-> NULL, ratingAndReviews |-> <<>>]
NoUser == [exists |-> FALSE, courses |-> <<>>, courseProgress |-> <<>>]

\* Course.js deleteCourse (auth, isDemo)
deleteCourse(courseId) ==
  /\ IF ~Course[courseId].exists
     THEN /\ res' = Response("deleteCourse", 404, courseId)
          /\ UNCHANGED <<Course, User, Section, SubSection, Category>>
     ELSE LET course == Course[courseId]
              pulled == Range(course.studentsEnrolled) \cup {course.instructor}
              sections == Range(course.courseContent)
              lessons == UNION {Range(Section[sec].subSection) :
                                  sec \in {x \in sections : Section[x].exists}}
          IN /\ User' = [u \in Accounts |->
                           IF u \in pulled /\ User[u].exists
                           THEN [User[u] EXCEPT !.courses = Pull(@, courseId)]
                           ELSE User[u]]
             /\ SubSection' = SubSection \ lessons
             /\ Section' = [sec \in Sections |->
                              IF sec \in sections
                              THEN [exists |-> FALSE, subSection |-> <<>>]
                              ELSE Section[sec]]
             /\ Category' = [Category EXCEPT ![course.category].courses =
                                              Pull(@, courseId)]
             /\ Course' = [Course EXCEPT ![courseId] = NoCourse]
             /\ res' = Response("deleteCourse", 200, courseId)
  /\ UNCHANGED <<build, CourseProgress, hook, deliveries, stopped, orders, mark,
                 RatingAndReview, cred>>

\* Profile.js deleteProfile (auth, isDemo); id is req.user.id
deleteProfile(id) ==
  /\ IF ~User[id].exists
     THEN /\ res' = Response("deleteProfile", 404, id)
          /\ UNCHANGED <<Course, User>>
     ELSE /\ Course' = [c \in Courses |->
                          IF c \in Range(User[id].courses) /\ Course[c].exists
                          THEN [Course[c] EXCEPT !.studentsEnrolled = Pull(@, id)]
                          ELSE Course[c]]
          /\ User' = [User EXCEPT ![id] = NoUser]
          /\ res' = Response("deleteProfile", 200, id)
  /\ UNCHANGED <<build, CourseProgress, Section, SubSection, hook, deliveries, stopped,
                 ext>>

\* ------------------------------------------------------------------------
\* Editing a course and deleting a section
\* ------------------------------------------------------------------------

\* the fields of a request body that editCourse copies: a new name, or a list
\* of students
EditBodies ==
  {[courseName |-> "renamed"]} \cup {[studentsEnrolled |-> <<u>>] : u \in Users}

\* for (const key in updates) course[key] = updates[key], then course.save():
\* every path of the document that the body names takes the body's value
AssignPaths(course, updates) ==
  [f \in DOMAIN course |->
     IF f \in DOMAIN updates /\ f # "exists" THEN updates[f] ELSE course[f]]

\* Course.js editCourse (auth, isInstructor, isDemo)
editCourse(courseId, updates) ==
  /\ IF ~Course[courseId].exists
     THEN /\ res' = Response("editCourse", 404, courseId)
          /\ UNCHANGED Course
     ELSE /\ Course' = [Course EXCEPT ![courseId] = AssignPaths(@, updates)]
          /\ res' = Response("editCourse", 200, courseId)
  /\ UNCHANGED <<build, User, CourseProgress, Section, SubSection, hook, deliveries,
                 stopped, ext>>

\* natural (insertion) order of the Section collection
SectionOrder == <<"sA", "sB", "sC">>

\* Section.findByIdAndDelete(sectionId): the section deleted, NULL for none. For
\* an undefined id the filter is {_id: undefined}, which matches no document or,
\* where undefined conditions are dropped, the first one (matchAll)
FindSectionToDelete(sectionId, matchAll) ==
  IF sectionId = Unset
  THEN LET m == {i \in DOMAIN SectionOrder : Section[SectionOrder[i]].exists}
       IN IF matchAll /\ m # {} THEN SectionOrder[Min(m)] ELSE NULL
  ELSE IF Section[sectionId].exists THEN sectionId ELSE NULL

\* Section.js deleteSection (auth, isInstructor, isDemo); sectionId is
\* req.params.sectionId. The SubSection documents of the section stay, and the
\* $pull runs on the first course whose courseContent holds sectionId
deleteSection(sectionId, matchAll) ==
  /\ LET deleted == FindSectionToDelete(sectionId, matchAll)
         holders == {i \in DOMAIN CourseOrder :
                       /\ Course[CourseOrder[i]].exists
                       /\ Includes(Course[CourseOrder[i]].courseContent, sectionId)}
     IN /\ Section' = IF deleted = NULL THEN Section
                      ELSE [Section EXCEPT ![deleted] =
                              [exists |-> FALSE, subSection |-> <<>>]]
        /\ Course' = IF holders = {} THEN Course
                     ELSE [Course EXCEPT ![CourseOrder[Min(holders)]].courseContent =
                                           Pull(@, sectionId)]
  /\ res' = Response("deleteSection", 200, NULL)
  /\ UNCHANGED <<build, User, CourseProgress, SubSection, hook, deliveries, stopped, ext>>

\* ------------------------------------------------------------------------
\* Password reset
\* ------------------------------------------------------------------------

\* ResetPassword.js holds two pairs of resetPasswordToken and resetPassword;
\* the server runs the pair of the controller module it loaded
ResetVersions == {"first", "second"}

\* 5 * 60 * 1000 ms, in minutes
ResetValidity == 5

Passwords == {"pw1", "pw2"}

\* paths of the User schema that the reset handlers write
CredentialPaths == {"password", "token", "resetPasswordExpires"}

\* the update of findOneAndUpdate under the strict schema: paths outside the
\* schema are dropped from the update
StrictUpdate(doc, update) ==
  [f \in DOMAIN doc |-> IF f \in DOMAIN update \cap CredentialPaths THEN update[f] ELSE doc[f]]

\* a path of a loaded document: undefined when the schema has no such path
GetPath(doc, f) == IF f \in DOMAIN doc THEN doc[f] ELSE Undefined

\* a < b and a > b of JavaScript for a Date path and a number: null counts as 0,
\* undefined as NaN
JsLess(a, n) ==
  IF a.type = "date" THEN a.value < n ELSE IF a.type = "null" THEN 0 < n ELSE FALSE
JsGreater(a, n) ==
  IF a.type = "date" THEN a.value > n ELSE IF a.type = "null" THEN 0 > n ELSE FALSE

\* crypto.randomUUID() / crypto.randomBytes(20): a value never generated before
FreshToken == ToString(Len(mails) + 1)

\* User.findOne({token}): the first account that stores the token, NULL for null
FindOneByToken(token) ==
  IF \E u \in Users : User[u].exists /\ Credentials[u].token = token
  THEN CHOOSE u \in Users :
         /\ User[u].exists /\ Credentials[u].token = token
         /\ \A v \in Users :
              (User[v].exists /\ Credentials[v].token = token /\ v # u) => u = "u1"
  ELSE NULL

\* require("../controllers/ResetPassword") at server start
Require(version) ==
  /\ ResetPassword = NULL
  /\ ResetPassword' = version
  /\ UNCHANGED <<build, db, hook, deliveries, stopped, res, orders, mark, Category,
                 RatingAndReview, now, mails, Credentials>>

\* time passes
Tick ==
  /\ ResetPassword # NULL
  /\ now < MaxTime
  /\ now' = now + 1
  /\ UNCHANGED <<build, db, hook, deliveries, stopped, res, orders, mark, Category,
                 RatingAndReview, ResetPassword, mails, Credentials>>

\* POST /reset-password-token; u is the account of req.body.email
resetPasswordToken(u) ==
  /\ ResetPassword # NULL
  /\ Len(mails) < MaxTokens
  /\ IF ~User[u].exists
     THEN /\ res' = Response("resetPasswordToken", 401, NULL)
          /\ UNCHANGED <<mails, Credentials>>
     ELSE LET token == FreshToken
              update == IF ResetPassword = "first"
                        THEN [token |-> token,
                              resetPasswordExpires |-> Date(now + ResetValidity)]
                        ELSE [token |-> token,
                              resetPasswordTokenExpires |-> Date(now + ResetValidity)]
          IN /\ Credentials' = [Credentials EXCEPT ![u] = StrictUpdate(@, update)]
             /\ mails' = Append(mails, [to |-> u, token |-> token, at |-> now])
             /\ res' = Response("resetPasswordToken", 200, NULL)
  /\ UNCHANGED <<build, db, hook, deliveries, stopped, orders, mark, Category,
                 RatingAndReview, ResetPassword, now>>

\* a resetPassword that checks the expiry and leaves the token in place
resetPasswordKeepsToken(token, password, confirmPassword) ==
  /\ ResetPassword # NULL
  /\ LET u == FindOneByToken(token)
     IN IF password # confirmPassword \/ u = NULL
        THEN /\ res' = Response("resetPassword", 401, "Rejected")
             /\ UNCHANGED Credentials
        ELSE IF JsLess(Credentials[u].resetPasswordExpires, now)
        THEN /\ res' = Response("resetPassword", 401, "Token Expired")
             /\ UNCHANGED Credentials
        ELSE /\ Credentials' = [Credentials EXCEPT ![u].password = Hash(password)]
             /\ res' = Response("resetPassword", 200, NULL)
  /\ UNCHANGED <<build, db, hook, deliveries, stopped, orders, mark, Category,
                 RatingAndReview, ResetPassword, now, mails>>

\* POST /reset-password; token, password and confirmPassword are in req.body
resetPassword(token, password, confirmPassword) ==
  /\ ResetPassword # NULL
  /\ LET u == FindOneByToken(token)
     IN IF password # confirmPassword
        THEN /\ res' = Response("resetPassword", 401, "Password does not match")
             /\ UNCHANGED Credentials
        ELSE IF u = NULL
        THEN \* version 1 answers Invalid Token, version 2 reads userDetails.token of null
             /\ res' = IF ResetPassword = "first"
                       THEN Response("resetPassword", 401, "Invalid Token")
                       ELSE Response("resetPassword", 500, "TypeError")
             /\ UNCHANGED Credentials
        ELSE IF ResetPassword = "first"
        THEN IF JsLess(GetPath(Credentials[u], "resetPasswordExpires"), now)
             THEN /\ res' = Response("resetPassword", 401, "Token Expired")
                  /\ UNCHANGED Credentials
             ELSE /\ Credentials' =
                       [Credentials EXCEPT ![u] =
                          StrictUpdate(@, [password |-> Hash(password), token |-> NULL,
                                           resetPasswordExpires |-> Null])]
                  /\ res' = Response("resetPassword", 200, NULL)
        ELSE IF ~JsGreater(GetPath(Credentials[u], "resetPasswordTokenExpires"), now)
             THEN /\ res' = Response("resetPassword", 401, "Token Expired")
                  /\ UNCHANGED Credentials
             ELSE /\ Credentials' =
                       [Credentials EXCEPT ![u] =
                          StrictUpdate(@, [password |-> Hash(password)])]
                  /\ res' = Response("resetPassword", 200, NULL)
  /\ UNCHANGED <<build, db, hook, deliveries, stopped, orders, mark, Category,
                 RatingAndReview, ResetPassword, now, mails>>

\* ------------------------------------------------------------------------
\* Routes: the middlewares between auth and the handler
\* ------------------------------------------------------------------------

\* the accountType of the decoded token; the payload of a token may have none
AccountTypes == {"Student", "Instructor", "Admin", Unset}

\* req.user of a request that passed auth, and whether its email is a demo email
Callers == [id : Accounts, accountType : AccountTypes, demo : BOOLEAN]

\* routes/Course.js and routes/Payments.js: the role a route asks for and the
\* demo check, in the order they are mounted
Chain(route) ==
  CASE route = "/editCourse" -> <<"Instructor", "isDemo">>
    [] route = "/deleteCourse" -> <<"isDemo">>
    [] route = "/deleteSection" -> <<"Instructor", "isDemo">>
    [] route = "/deleteSubSection" -> <<"Instructor">>
    [] route = "/updateCourseProgress" -> <<"Student">>
    [] route = "/capturePayment" -> <<"Student">>

RECURSIVE Blocked(_, _)
\* the response of the first middleware of the chain that does not call next();
\* status 0 when all of them do
Blocked(chain, caller) ==
  IF chain = <<>> THEN Response("next", 0, NULL)
  ELSE IF Head(chain) = "isDemo"
  THEN IF caller.demo THEN Response("isDemo", 401, NULL)
       ELSE Blocked(Tail(chain), caller)
  ELSE \* authorizeRole(role): req.user?.accountType !== role
       IF caller.accountType # Head(chain)
       THEN Response("authorizeRole", 403, Head(chain))
       ELSE Blocked(Tail(chain), caller)

\* every middleware of the route calls next() for this caller
Passes(route, caller) == Blocked(Chain(route), caller).status = 0

\* a middleware of the route answers and the handler does not run
Reject(route, caller) ==
  /\ res' = Blocked(Chain(route), caller)
  /\ UNCHANGED <<build, db, hook, deliveries, stopped, ext>>

\* POST /editCourse
RouteEditCourse(caller, courseId, updates) ==
  IF Passes("/editCourse", caller) THEN editCourse(courseId, updates)
  ELSE Reject("/editCourse", caller)

\* DELETE /deleteCourse
RouteDeleteCourse(caller, courseId) ==
  IF Passes("/deleteCourse", caller) THEN deleteCourse(courseId)
  ELSE Reject("/deleteCourse", caller)

\* POST /deleteSection: the path has no parameter, req.params.sectionId is undefined
RouteDeleteSection(caller, matchAll) ==
  IF Passes("/deleteSection", caller) THEN deleteSection(Unset, matchAll)
  ELSE Reject("/deleteSection", caller)

\* POST /deleteSubSection
RouteDeleteSubSection(caller, sectionId, subSectionId) ==
  IF Passes("/deleteSubSection", caller) THEN deleteSubSection(sectionId, subSectionId)
  ELSE Reject("/deleteSubSection", caller)

\* POST /updateCourseProgress: the handler is markLectureAsComplete, which takes
\* the student from req.body.userId
RouteUpdateCourseProgress(caller, userId, courseId, subSectionId) ==
  IF Passes("/updateCourseProgress", caller)
  THEN markLectureAsComplete(userId, courseId, subSectionId)
  ELSE Reject("/updateCourseProgress", caller)

\* POST /capturePayment: the student is req.user.id
RouteCapturePayment(caller, course_id, providerOk) ==
  IF Passes("/capturePayment", caller) THEN capturePayment(caller.id, course_id, providerOk)
  ELSE Reject("/capturePayment", caller)

\* ------------------------------------------------------------------------
\* Response bodies
\* ------------------------------------------------------------------------

\* a JSON body: its success flag, its keys, and whether one of its values
\* carries error.message of a caught exception
Json(success, keys, exception) ==
  [success |-> success, keys |-> keys, exception |-> exception]

\* the body that the handlers of the payment, enrolment and progress routes
\* send with response r
Body(r) ==
  IF r.handler = "capturePayment"
  THEN IF r.data = "order"
       THEN Json(TRUE, {"success", "courseName", "orderId", "currency", "amount"}, FALSE)
       ELSE IF r.data \in {"CastError", "ProviderError"}
       THEN \* message: `... ${error.message}`
            Json(FALSE, {"success", "message"}, TRUE)
       ELSE Json(FALSE, {"success", "message"}, FALSE)
  ELSE IF r.handler = "verifySignature"
  THEN IF r.status = 200 THEN Json(TRUE, {"success", "message"}, FALSE)
       ELSE IF r.status = 500
       THEN \* message: `Enrollment processing failed: ${error.message}`
            Json(FALSE, {"success", "message"}, TRUE)
       ELSE Json(FALSE, {"success", "message"}, FALSE)
  ELSE IF r.handler = "updateCourseProgress"
  THEN IF r.status = 200 THEN Json(TRUE, {"success", "message"}, FALSE)
       ELSE IF r.data = "NotEnrolled" THEN Json(FALSE, {"success", "message"}, FALSE)
       ELSE Json(FALSE, {"success", "error"}, FALSE)
  ELSE IF r.handler = "markLectureAsComplete"
  THEN Json(r.status = 200, {"success", "message"}, FALSE)
  ELSE IF r.handler = "getProgressPercentage"
  THEN IF r.status = 200 THEN Json(TRUE, {"success", "data", "message"}, FALSE)
       ELSE Json(FALSE, {"success", "error"}, FALSE)
  ELSE Json(Is2xx(r.status), {"success", "message"}, FALSE)

\* ------------------------------------------------------------------------
\* Specifications
\* ------------------------------------------------------------------------

\* the inputs of the progress and content handlers
MarkLessons == {"l1", "l2"}
DeleteInputs == {<<"sA", "l1">>, <<"sB", "l1">>}

Quiet == \A q \in Procs : ~InFlight(q)

\* the handlers as a server that takes one request at a time runs them:
\* each request is handled to its response before the next one starts
Next ==
  \/ \E req \in Requests : Quiet /\ Deliver("p1", req)
  \/ Step1("p1")
  \/ Step2("p1")
  \/ Step3("p1")
  \/ Step4("p1")
  \/ \E mailOk \in BOOLEAN : Step5("p1", mailOk)
  \/ \E u \in Users, c \in Courses, l \in MarkLessons :
       Quiet /\ updateCourseProgress(u, c, l)
  \/ \E u \in Users, c \in Courses, l \in MarkLessons :
       Quiet /\ markLectureAsComplete(u, c, l)
  \/ \E u \in Users, c \in Courses : Quiet /\ getProgressPercentage(u, c)
  \/ \E d \in DeleteInputs : Quiet /\ deleteSubSection(d[1], d[2])

Spec == Init /\ [][Next]_vars

\* the webhook under concurrent deliveries of its requests
NextHook ==
  \/ \E p \in Procs, req \in Requests : Deliver(p, req)
  \/ \E p \in Procs : Step1(p)
  \/ \E p \in Procs : Step2(p)
  \/ \E p \in Procs : Step3(p)
  \/ \E p \in Procs : Step4(p)
  \/ \E p \in Procs, mailOk \in BOOLEAN : Step5(p, mailOk)

SpecHook == Init /\ [][NextHook]_vars

\* the webhook with fulfilments that may stop midway and are delivered again
NextRetry ==
  \/ \E req \in Requests : Quiet /\ Deliver("p1", req)
  \/ Step1("p1")
  \/ Step2("p1")
  \/ Step3("p1")
  \/ Step4("p1")
  \/ \E mailOk \in BOOLEAN : Step5("p1", mailOk)
  \/ \E crash \in BOOLEAN : Abort("p1", crash)

SpecRetry == Init /\ [][NextRetry]_vars

\* order creation next to the webhook, one request at a time
NextOrder ==
  \/ \E req \in Requests : Quiet /\ Deliver("p1", req)
  \/ Step1("p1")
  \/ Step2("p1")
  \/ Step3("p1")
  \/ Step4("p1")
  \/ \E mailOk \in BOOLEAN : Step5("p1", mailOk)
  \/ \E u \in Users, c \in CourseIds, providerOk \in BOOLEAN :
       Quiet /\ capturePayment(u, c, providerOk)

SpecOrder == Init /\ [][NextOrder]_vars

\* the inputs of the concurrent mark-complete requests: one student on several
\* devices, enrolled by webhook requests that carry a token
MarkHandlers == {"updateCourseProgress", "markLectureAsComplete"}
MarkUsers == {"u1"}
MarkRequests ==
  {req \in Requests : /\ req.token /\ req.body.layout = "compact"
                      /\ req.body.userId \in MarkUsers /\ req.body.courseId = "c1"}

NoMarking == \A q \in Procs : ~Marking(q)

\* mark-complete requests handled concurrently, after enrolment by the webhook
NextMark ==
  \/ \E req \in MarkRequests : Quiet /\ NoMarking /\ Deliver("p1", req)
  \/ Step1("p1")
  \/ Step2("p1")
  \/ Step3("p1")
  \/ Step4("p1")
  \/ \E mailOk \in BOOLEAN : Step5("p1", mailOk)
  \/ \E p \in Procs, h \in MarkHandlers, u \in MarkUsers, l \in MarkLessons :
       Quiet /\ MarkStart(p, h, u, "c1", l)
  \/ \E p \in Procs : MarkWrite(p)

SpecMark == Init /\ [][NextMark]_vars

\* the webhook requests next to the deletions: they carry a token and a
\* compact body
CascadeRequests == {req \in Requests : req.token /\ req.body.layout = "compact"}

\* enrolment, progress, ratings and the deletions, one request at a time
NextCascade ==
  \/ \E req \in CascadeRequests : Quiet /\ Deliver("p1", req)
  \/ Step1("p1")
  \/ Step2("p1")
  \/ Step3("p1")
  \/ Step4("p1")
  \/ \E mailOk \in BOOLEAN : Step5("p1", mailOk)
  \/ \E u \in Users, c \in Courses, l \in MarkLessons :
       Quiet /\ updateCourseProgress(u, c, l)
  \/ \E u \in Users, c \in Courses, l \in MarkLessons :
       Quiet /\ markLectureAsComplete(u, c, l)
  \/ \E u \in Users, c \in Courses : Quiet /\ createRating(u, c)
  \/ \E c \in Courses : Quiet /\ deleteCourse(c)
  \/ \E u \in Accounts : Quiet /\ deleteProfile(u)

SpecCascade == Init /\ [][NextCascade]_vars

\* the webhook requests for the course that exists
RecordRequests == {req \in CascadeRequests : req.body.courseId = "c1"}

\* the handlers that write ProgressRecords next to the deletions, one request
\* at a time
NextRecord ==
  \/ \E req \in RecordRequests : Quiet /\ Deliver("p1", req)
  \/ Step1("p1")
  \/ Step2("p1")
  \/ Step3("p1")
  \/ Step4("p1")
  \/ \E mailOk \in BOOLEAN : Step5("p1", mailOk)
  \/ \E u \in Users, c \in Courses, l \in MarkLessons :
       Quiet /\ updateCourseProgress(u, c, l)
  \/ \E u \in Users, c \in Courses, l \in MarkLessons :
       Quiet /\ markLectureAsComplete(u, c, l)
  \/ \E d \in DeleteInputs : Quiet /\ deleteSubSection(d[1], d[2])
  \/ \E c \in Courses : Quiet /\ deleteCourse(c)
  \/ \E u \in Accounts : Quiet /\ deleteProfile(u)

SpecRecord == Init /\ [][NextRecord]_vars

\* the accountType of an account in the User collection
AccountTypeOf(a) == IF a \in Instructors THEN "Instructor" ELSE "Student"

\* the callers of the routes: each account with a token that carries its
\* accountType or none, and the instructor under a demo email
RouteCallers ==
  {caller \in Callers :
     /\ caller.accountType \in {AccountTypeOf(caller.id), Unset}
     /\ caller.demo => (caller.id \in Instructors /\ caller.accountType # Unset)}

\* the webhook requests next to the routes: correctly signed, for the course
\* that exists
RouteRequests == {req \in RecordRequests : SignatureMatches(req)}

\* the routes behind their middlewares, one request at a time, next to the webhook
NextRoute ==
  \/ \E req \in RouteRequests : Quiet /\ Deliver("p1", req)
  \/ Step1("p1")
  \/ Step2("p1")
  \/ Step3("p1")
  \/ Step4("p1")
  \/ \E mailOk \in BOOLEAN : Step5("p1", mailOk)
  \/ \E caller \in RouteCallers, updates \in EditBodies :
       Quiet /\ RouteEditCourse(caller, "c1", updates)
  \/ \E caller \in RouteCallers : Quiet /\ RouteDeleteCourse(caller, "c1")
  \/ \E caller \in RouteCallers, matchAll \in BOOLEAN :
       Quiet /\ RouteDeleteSection(caller, matchAll)
  \/ \E caller \in RouteCallers : Quiet /\ RouteDeleteSubSection(caller, "sA", "l1")
  \/ \E caller \in RouteCallers, u \in Users :
       Quiet /\ RouteUpdateCourseProgress(caller, u, "c1", "l1")
  \/ \E caller \in RouteCallers, providerOk \in BOOLEAN :
       Quiet /\ RouteCapturePayment(caller, "c1", providerOk)

SpecRoute == Init /\ [][NextRoute]_vars

\* the tokens of the reset mails sent so far
MailedTokens == {mails[i].token : i \in DOMAIN mails}

\* the accounts whose owners ask for a reset
ResetUsers == {"u1"}

\* the password reset: tokens are issued, time passes, and the tokens that
\* were mailed are presented
NextReset ==
  \/ \E version \in ResetVersions : Require(version)
  \/ Tick
  \/ \E u \in ResetUsers : resetPasswordToken(u)
  \/ \E token \in MailedTokens, password, confirmPassword \in Passwords :
       resetPassword(token, password, confirmPassword)

SpecReset == Init /\ [][NextReset]_vars

\* createRating requests handled concurrently, after enrolment by the webhook
NextRating ==
  \/ \E req \in RouteRequests :
       Quiet /\ (\A q \in Procs : ~Rating(q)) /\ Deliver("p1", req)
  \/ Step1("p1")
  \/ Step2("p1")
  \/ Step3("p1")
  \/ Step4("p1")
  \/ \E mailOk \in BOOLEAN : Step5("p1", mailOk)
  \/ \E p \in Procs, u \in Users, c \in Courses : Quiet /\ RatingStart(p, u, c)
  \/ \E p \in Procs : RatingWrite(p)

SpecRating == Init /\ [][NextRating]_vars

\* ------------------------------------------------------------------------
\* Properties of the webhook
\* ------------------------------------------------------------------------

\* the ProgressRecords created for the pair (userId, courseId)
RecordsFor(u, c) ==
  {i \in DOMAIN CourseProgress :
     CourseProgress[i].made.userID = u /\ CourseProgress[i].made.courseID = c}

\* slot p holds an answered request whose notes were (c, u)
Handled(p, c, u) ==
  hook[p].pc = "done" /\ hook[p].courseId = c /\ hook[p].userId = u

\* the response sent last is the 200 of verifySignature
Fulfilled == res.handler = "verifySignature" /\ res.status = 200

\* C1: after sequentially delivered, verified notifications for the same
\* (courseId, userId) have all been handled, the last one with success, exactly
\* one ProgressRecord exists for the pair and userId is exactly once in the
\* Course's studentsEnrolled.
C1_OneRecordOneEnrolment ==
  \A c \in Courses, u \in Users :
    (Handled("p1", c, u) /\ Fulfilled /\ Course[c].exists /\ User[u].exists)
      => /\ Cardinality(RecordsFor(u, c)) = 1
         /\ Count(u, Course[c].studentsEnrolled) = 1

\* C2: a request whose signature header differs from the HMAC-SHA256 of the
\* payload under the shared secret is answered with a non-2xx status, starts no
\* fulfilment and leaves every document unchanged.
C2_BadSignatureRejected ==
  [][\/ (~Is2xx(res'.status) /\ hook' = hook /\ db' = db)
     \/ \A req \in Requests :
          (req.signature # <<webhookSecret,
                             [courseId |-> req.body.courseId,
                              userId |-> req.body.userId,
                              layout |-> "compact"]>>)
            => ~Deliver("p1", req)]_vars

\* a signature was rejected by verifySignature
C2_Witness == res.handler = "verifySignature" /\ res.status = 400

\* C3: when two verified notifications for the same (userId, courseId) were
\* handled concurrently and answered with success, the final state holds exactly one ProgressRecord for
\* the pair, userId once in studentsEnrolled and courseId once in the User's courses.
C3_ConcurrentDeliveriesOnce ==
  \A c \in Courses, u \in Users :
    (/\ Handled("p1", c, u) /\ Handled("p2", c, u)
     /\ hook["p1"].overlapped /\ hook["p2"].overlapped
     /\ Fulfilled
     /\ Course[c].exists /\ User[u].exists)
      => /\ Cardinality(RecordsFor(u, c)) = 1
         /\ Count(u, Course[c].studentsEnrolled) = 1
         /\ Count(c, User[u].courses) = 1

\* C4: when a fulfilment for (courseId, userId) stopped after a prefix of its
\* steps and a redelivery then ran to completion with success, userId is once
\* in studentsEnrolled, courseId once in the User's courses, there is exactly
\* one ProgressRecord for the pair and its id is once in the User's courseProgress.
C4_RetryConverges ==
  \A c \in Courses, u \in Users :
    (/\ <<c, u>> \in stopped
     /\ Handled("p1", c, u)
     /\ Fulfilled
     /\ Course[c].exists /\ User[u].exists)
      => /\ Count(u, Course[c].studentsEnrolled) = 1
         /\ Count(c, User[u].courses) = 1
         /\ Cardinality(RecordsFor(u, c)) = 1
         /\ \A i \in RecordsFor(u, c) : Count(i, User[u].courseProgress) = 1

\* steps 1-4 are in place for (c, u)
StepsApplied(c, u) ==
  /\ Course[c].exists /\ User[u].exists
  /\ Includes(Course[c].studentsEnrolled, u)
  /\ Includes(User[u].courses, c)
  /\ \E i \in RecordsFor(u, c) : Includes(User[u].courseProgress, i)

\* C5: the webhook answers 200 exactly when steps 1-4 are in place for the
\* verified (courseId, userId); a missing Course or User gives a non-2xx answer.
C5_StatusTellsOutcome ==
  \A c \in Courses, u \in Users :
    (Handled("p1", c, u) /\ res.handler = "verifySignature" /\ res.status # 400)
      => (Is2xx(res.status) <=> StepsApplied(c, u))

\* C6: when the confirmation email fails after steps 1-4 succeeded, the
\* writes of steps 1-4 stay and the webhook answers 200.
C6_MailFailureSwallowed ==
  [][(/\ Step5("p1", FALSE)
      /\ hook["p1"].enrolledCourse # NULL
      /\ hook["p1"].enrolledStudent)
       => (res'.status = 200 /\ db' = db)]_vars

\* a fulfilment whose email failed was answered and its ProgressRecord is stored
C6_Witness ==
  /\ res.handler = "verifySignature" /\ res.data = "mail failed"
  /\ hook["p1"].pc = "done"
  /\ RecordsFor(hook["p1"].userId, hook["p1"].courseId) # {}

\* ------------------------------------------------------------------------
\* Properties of the progress tracker
\* ------------------------------------------------------------------------

\* lesson l is in the completedVideos of a ProgressRecord of (u, c)
Completed(u, c, l) ==
  \E i \in RecordsFor(u, c) :
    \E k \in DOMAIN CourseProgress[i].completedVideos :
      CourseProgress[i].completedVideos[k] = l

MarkComplete(u, c, l) ==
  Quiet /\ (updateCourseProgress(u, c, l) \/ markLectureAsComplete(u, c, l))

C8_NotEnrolledChangesNothing ==
  [][\A u \in Users, c \in Courses, l \in MarkLessons :
       (MarkComplete(u, c, l) /\ RecordsFor(u, c) = {})
         => (~Is2xx(res'.status) /\ db' = db)]_vars

\* C9: getProgressPercentage for an enrolled (student, course) whose course has
\* no lessons answers 200 with 0.
C9_ZeroLessonsIsZero ==
  [][\A u \in Users, c \in Courses :
       (/\ Quiet /\ getProgressPercentage(u, c)
        /\ Course[c].exists /\ RecordsFor(u, c) # {}
        /\ SumLen(Course[c].courseContent) = 0)
         => (res'.status = 200 /\ res'.data = 0)]_vars

\* the lessons completed in the ProgressRecords of (u, c)
CompletedSet(u, c) == {l \in Lessons : Completed(u, c, l)}

\* k / total * 100 to the nearest hundredth, ties upward, in hundredths
NearestHundredth(k, total) ==
  CHOOSE n \in 0..10000 :
    2 * total * n - total <= 2 * k * 10000 /\ 2 * k * 10000 < 2 * total * n + total

\* C10: for an enrolled (student, course) with k distinct lessons completed,
\* getProgressPercentage answers round2(k / totalLessons * 100); 2 of 3 is 66.67.
C10_PercentageIsRounded ==
  [][\A u \in Users, c \in Courses :
       (/\ Quiet /\ getProgressPercentage(u, c)
        /\ Course[c].exists /\ RecordsFor(u, c) # {}
        /\ SumLen(Course[c].courseContent) > 0
        /\ Cardinality(CompletedSet(u, c)) <= SumLen(Course[c].courseContent))
         => /\ res'.status = 200
            /\ res'.data = NearestHundredth(Cardinality(CompletedSet(u, c)),
                                            SumLen(Course[c].courseContent))]_vars

ProgressRefs(u, c) ==
  {k \in DOMAIN User[u].courseProgress :
     /\ User[u].courseProgress[k] \in DOMAIN CourseProgress
     /\ CourseProgress[User[u].courseProgress[k]].made.courseID = c}

\* C14: after the duplicate deliveries of a verified (courseId, userId) have
\* been handled, courseId is exactly once in the User's courses and the User's
\* courseProgress holds exactly one id for the course, the id of the single
\* ProgressRecord of the pair.
C14_UserListsOnce ==
  \A c \in Courses, u \in Users :
    (Handled("p1", c, u) /\ Fulfilled /\ Course[c].exists /\ User[u].exists)
      => /\ Count(c, User[u].courses) = 1
         /\ Cardinality(ProgressRefs(u, c)) = 1
         /\ \A k \in ProgressRefs(u, c) : RecordsFor(u, c) = {User[u].courseProgress[k]}

\* C15: the signature is verified against the raw bytes of the request: one
\* signature value is accepted for at most one raw body, and a request whose
\* signature is the HMAC of its raw body is never rejected, however its JSON
\* re-serialises.
C15_RawBodyIsVerified ==
  [][/\ (hook'["p1"].pc = "s1" /\ hook["p1"].pc # "s1")
          => \A r1 \in Requests :
               Deliver("p1", r1)
                 => \A r2 \in Requests :
                      (r2.signature = r1.signature /\ r2.body # r1.body)
                        => ~Deliver("p1", r2)
     /\ (res' = Response("verifySignature", 400, NULL) /\ hook' = hook)
          => \A req \in Requests :
               (req.token /\ req.signature = <<webhookSecret, req.body>>)
                 => ~Deliver("p1", req)]_vars

\* C16: under every interleaving of concurrent mark-complete calls for the
\* same (student, course, lesson), the lesson id is at most once in the
\* completedVideos of the ProgressRecord, in every reachable state.
C16_CompletedVideosIsASet ==
  \A u \in Users, c \in Courses :
    \A i \in RecordsFor(u, c), l \in Lessons :
      Count(l, CourseProgress[i].completedVideos) <= 1

\* the lessons in the completedVideos of a ProgressRecord
CompletedIn(record) ==
  {record.completedVideos[k] : k \in DOMAIN record.completedVideos}

\* C17: while the student and the course exist, no step deletes a
\* ProgressRecord of (student, course), and the set of lesson ids in its
\* completedVideos after the step is a superset of the set before it.
C17_RecordOnlyGrows ==
  [][\A u \in Users, c \in Courses :
       (/\ User[u].exists /\ Course[c].exists
        /\ User'[u].exists /\ Course'[c].exists)
         => \A i \in RecordsFor(u, c) :
              /\ i \in DOMAIN CourseProgress'
              /\ CourseProgress'[i].made = CourseProgress[i].made
              /\ CompletedIn(CourseProgress[i]) \subseteq CompletedIn(CourseProgress'[i])]_vars

\* a record holds two completed lessons after a lesson, another account or
\* the content of the course was deleted
C17_Witness ==
  /\ \E u \in Users : \E i \in RecordsFor(u, "c1") :
       /\ User[u].exists /\ Course["c1"].exists
       /\ Cardinality(CompletedIn(CourseProgress[i])) = 2
  /\ \/ \E a \in Accounts : ~User[a].exists
     \/ SubSection # Lessons

\* ------------------------------------------------------------------------
\* Properties of the deletions
\* ------------------------------------------------------------------------

\* C18: right after deleteCourse succeeded for a course, no User's courses
\* holds the course, no Category's courses holds it, no ProgressRecord is a
\* record of the course, no User's courseProgress points at such a record and
\* no RatingAndReview is a review of the course.
C18_NoReferenceToDeletedCourse ==
  \A c \in Courses :
    (res = Response("deleteCourse", 200, c) /\ Quiet)
      => /\ \A u \in Accounts : User[u].exists => Count(c, User[u].courses) = 0
         /\ \A k \in Categories : Count(c, Category[k].courses) = 0
         /\ \A i \in DOMAIN CourseProgress : CourseProgress[i].made.courseID # c
         /\ \A u \in Accounts : User[u].exists => ProgressRefs(u, c) = {}
         /\ \A i \in DOMAIN RatingAndReview : RatingAndReview[i].made.course # c

\* C19: right after deleteProfile succeeded for a user, no Course's
\* studentsEnrolled holds the user, no ProgressRecord is a record of the user
\* and no Course names the user as its instructor.
C19_NoReferenceToDeletedUser ==
  \A u \in Accounts :
    (res = Response("deleteProfile", 200, u) /\ Quiet)
      => /\ \A c \in Courses :
              Course[c].exists
                => (Count(u, Course[c].studentsEnrolled) = 0 /\ Course[c].instructor # u)
         /\ \A i \in DOMAIN CourseProgress : CourseProgress[i].made.userID # u

\* ------------------------------------------------------------------------
\* Properties of capturePayment
\* ------------------------------------------------------------------------

\* C12: whatever its outcome, capturePayment changes no Course (studentsEnrolled),
\* no User (courses, courseProgress) and no ProgressRecord: order creation
\* never grants access.
C12_CaptureChangesNothing ==
  [][\A u \in Users, c \in CourseIds, providerOk \in BOOLEAN :
       (Quiet /\ capturePayment(u, c, providerOk)) => db' = db]_vars

\* an order was created for a student that is in no studentsEnrolled
C12_Witness ==
  /\ res = Response("capturePayment", 200, "order")
  /\ \E o \in orders : \A c \in Courses :
       \A k \in DOMAIN Course[c].studentsEnrolled : Course[c].studentsEnrolled[k] # o[2]

\* the processor was asked for an order in the step that produced this response
OrderAsked(r) == r.handler = "capturePayment" /\ r.data \in {"order", "ProviderError"}

\* u is in the studentsEnrolled of c
Enrolled(u, c) ==
  \E k \in DOMAIN Course[c].studentsEnrolled : Course[c].studentsEnrolled[k] = u

\* C13: capturePayment asks the processor for an order only when the course
\* exists and the student is not in its studentsEnrolled; for an id of no
\* course it reports CourseNotFound and for an enrolled student AlreadyEnrolled,
\* in both cases without an order.
C13_OrderOnlyWhenEligible ==
  [][\A u \in Users, c \in CourseIds, providerOk \in BOOLEAN :
       (Quiet /\ capturePayment(u, c, providerOk))
         => /\ (OrderAsked(res') \/ orders' # orders)
                 => (c \in Courses /\ Course[c].exists /\ ~Enrolled(u, c))
            /\ (c \in Courses /\ ~Course[c].exists)
                 => (res'.data = "CourseNotFound" /\ ~OrderAsked(res') /\ orders' = orders)
            /\ (c \in Courses /\ Course[c].exists /\ Enrolled(u, c))
                 => (res'.data = "AlreadyEnrolled" /\ ~OrderAsked(res')
                     /\ orders' = orders)]_vars

\* an enrolled student asked for another order and was told AlreadyEnrolled
C13_Witness ==
  /\ res = Response("capturePayment", 200, "AlreadyEnrolled")
  /\ \E u \in Users : Enrolled(u, "c1")

\* ------------------------------------------------------------------------
\* Properties of the response bodies
\* ------------------------------------------------------------------------

PaymentAndProgressHandlers ==
  {"capturePayment", "verifySignature", "updateCourseProgress",
   "markLectureAsComplete", "getProgressPercentage"}

\* C20: every failure response of capturePayment, verifySignature,
\* updateCourseProgress, markLectureAsComplete and getProgressPercentage is a
\* body with success = false and a message field, and a failure response of
\* the webhook carries no text of a raw exception.
C20_FailuresAreStructured ==
  (res.handler \in PaymentAndProgressHandlers /\ (~Is2xx(res.status) \/ ~Body(res).success))
    => /\ Body(res).success = FALSE
       /\ "message" \in Body(res).keys
       /\ res.handler = "verifySignature" => ~Body(res).exception

\* ------------------------------------------------------------------------
\* Properties of the routes
\* ------------------------------------------------------------------------

\* a request of this caller to a route that edits or deletes course content
ContentRequest(caller) ==
  \/ \E c \in Courses, updates \in EditBodies : RouteEditCourse(caller, c, updates)
  \/ \E c \in Courses : RouteDeleteCourse(caller, c)
  \/ \E matchAll \in BOOLEAN : RouteDeleteSection(caller, matchAll)
  \/ \E d \in DeleteInputs : RouteDeleteSubSection(caller, d[1], d[2])

\* a request of this caller to capturePayment or to mark-complete
StudentRequest(caller) ==
  \/ \E c \in Courses, providerOk \in BOOLEAN : RouteCapturePayment(caller, c, providerOk)
  \/ \E u \in Users, c \in Courses, l \in MarkLessons :
       RouteUpdateCourseProgress(caller, u, c, l)

\* C21: a request whose token's accountType is not Instructor is answered with
\* a non-2xx status and edits or deletes no Course, Section or SubSection, and
\* for a request whose accountType is not Student neither capturePayment nor
\* mark-complete runs: it is rejected and nothing changes.
C21_WrongRoleRejected ==
  [][Quiet =>
       \A caller \in RouteCallers :
         /\ (caller.accountType # "Instructor" /\ ContentRequest(caller))
              => /\ ~Is2xx(res'.status)
                 /\ <<Course, Section, SubSection>>' = <<Course, Section, SubSection>>
         /\ (caller.accountType # "Student" /\ StudentRequest(caller))
              => /\ res'.handler \notin {"capturePayment", "markLectureAsComplete"}
                 /\ ~Is2xx(res'.status)
                 /\ db' = db /\ orders' = orders]_vars

\* the callback of the payment processor: the signature header is the HMAC of
\* the body it sends, which is compact JSON, and there is no login token
ProcessorCallbacks ==
  {req \in Requests :
     /\ ~req.token
     /\ req.body.layout = "compact"
     /\ req.signature = <<webhookSecret, req.body>>}

\* C22: a correctly signed notification that the processor posts to
\* /verifyPayment without a login token is not turned away before the signature
\* is verified: it reaches verifySignature, which starts the fulfilment that
\* creates the ProgressRecord.
C22_CallbackReachesVerifier ==
  [][\A req \in ProcessorCallbacks :
       (Quiet /\ deliveries < MaxDeliveries /\ Deliver("p1", req))
         => (hook'["p1"].pc = "s1" /\ res'.handler # "auth")]_vars

\* ------------------------------------------------------------------------
\* Properties of the password reset
\* ------------------------------------------------------------------------

\* account u has a reset pending under token t
Pending(u, t) == User[u].exists /\ Credentials[u].token = t

\* the state NoResetPending: no token and no expiry time are stored
NoResetPending(doc) ==
  doc.token \in {NULL, Unset} /\ doc.resetPasswordExpires.type # "date"

\* C23: a reset token is consumed by its first successful use: the step in
\* which resetPassword succeeds with token T leaves the user in NoResetPending
\* and T stored with no account; a token stored with no account stays so, and a
\* resetPassword that presents it is rejected and changes no stored password.
C23_TokenIsConsumed ==
  [][\A t \in MailedTokens :
       /\ \A password, confirmPassword \in Passwords :
            resetPassword(t, password, confirmPassword)
              => /\ res'.status = 200
                      => \A u \in Users :
                           /\ Credentials'[u].token # t
                           /\ Pending(u, t) => NoResetPending(Credentials'[u])
                 /\ (\A u \in Users : ~Pending(u, t))
                      => (~Is2xx(res'.status) /\ Credentials' = Credentials)
       /\ (\A u \in Users : ~Pending(u, t))
            => \A u \in Users : Credentials'[u].token # t]_vars

\* the only token that was mailed has changed a password, and a later
\* resetPassword that presented it was rejected
C23_Witness ==
  /\ Len(mails) = 1
  /\ res = Response("resetPassword", 401, "Invalid Token")
  /\ \E u \in Users :
       /\ Credentials[u].password \in {Hash(password) : password \in Passwords}
       /\ NoResetPending(Credentials[u])

\* C24: a token issued by resetPasswordToken is usable exactly while it is
\* pending and unexpired: resetPassword with matching passwords and a pending
\* token updates the password when presented within 5 minutes of the issue, and
\* is rejected with the stored passwords unchanged when presented later.
C24_TokenUsableUntilExpiry ==
  [][\A i \in DOMAIN mails, password \in Passwords :
       (/\ resetPassword(mails[i].token, password, password)
        /\ Pending(mails[i].to, mails[i].token))
         => IF now <= mails[i].at + ResetValidity
            THEN /\ res'.status = 200
                 /\ Credentials'[mails[i].to].password = Hash(password)
            ELSE ~Is2xx(res'.status) /\ Credentials' = Credentials]_vars

\* ------------------------------------------------------------------------
\* Properties of the ratings
\* ------------------------------------------------------------------------

\* the RatingAndReviews created by user u for course c
ReviewsOf(u, c) ==
  {i \in DOMAIN RatingAndReview :
     RatingAndReview[i].made.user = u /\ RatingAndReview[i].made.course = c}

\* C25: under every interleaving of createRating calls there is at most one
\* RatingAndReview per (user, course) and no id is twice in a course's
\* ratingAndReviews; a call by a user who is not in the course's
\* studentsEnrolled, or who already reviewed the course, is answered with a
\* non-2xx conflict and creates nothing.
C25_OneReviewPerUserAndCourse ==
  [][/\ \A u \in Users, c \in Courses :
          /\ Cardinality(ReviewsOf(u, c)') <= 1
          /\ \A i \in DOMAIN RatingAndReview' : Count(i, Course'[c].ratingAndReviews) <= 1
     /\ \A p \in Procs, u \in Users, c \in Courses :
          (Quiet /\ RatingStart(p, u, c) /\ (~Enrolled(u, c) \/ ReviewsOf(u, c) # {}))
            => /\ ~Is2xx(res'.status)
               /\ mark' = mark]_vars

\* ------------------------------------------------------------------------
\* Properties of the enrolment list
\* ------------------------------------------------------------------------

\* C26: a Course's studentsEnrolled gains a user id only in step 1 of a
\* fulfilment started by a correctly signed notification that names that user
\* and that course; no other operation, editCourse in particular, adds a user.
C26_EnrolledOnlyByFulfilment ==
  [][\A c \in Courses, u \in Users :
       Count(u, Course'[c].studentsEnrolled) > Count(u, Course[c].studentsEnrolled)
         => /\ hook["p1"].pc = "s1" /\ hook'["p1"].pc = "s2"
            /\ hook["p1"].courseId = c
            /\ hook["p1"].userId = u]_vars

\* ------------------------------------------------------------------------
\* Properties of the record lookup
\* ------------------------------------------------------------------------

\* C27: once a fulfilment for (u, c) has succeeded, a mark-complete by u on c
\* does not fail with NotEnrolled, and the lookups of the mark-complete
\* handlers and of getProgressPercentage for (u, c) return no record that was
\* created for another student or another course.
C27_LookupFindsOwnRecord ==
  [][\A u \in Users, c \in Courses :
       (Quiet /\ StepsApplied(c, u))
         => /\ \A l \in MarkLessons :
                 MarkComplete(u, c, l) => res'.data # "NotEnrolled"
            /\ \A h \in MarkHandlers :
                 FindOneProgress(MarkFilter(h, u, c)) \in RecordsFor(u, c)]_vars

\* ------------------------------------------------------------------------
\* Frame of the fulfilment
\* ------------------------------------------------------------------------

\* C28: a step of the fulfilment for (courseId, userId) changes no Course but
\* the one identified by courseId, step 1 appends userId to the studentsEnrolled
\* of that Course, and when no Course with that id exists the fulfilment changes
\* no document: no entry in the User's courses, no ProgressRecord, no entry in
\* the User's courseProgress.
C28_FulfilmentTouchesItsCourseOnly ==
  [][(InFlight("p1") /\ hook'["p1"].pc # hook["p1"].pc)
       => LET courseId == hook["p1"].courseId
              userId == hook["p1"].userId
          IN /\ \A c \in Courses : Course'[c] # Course[c] => c = courseId
             /\ (hook["p1"].pc = "s1" /\ hook'["p1"].pc = "s2" /\ Course[courseId].exists)
                  => Course'[courseId].studentsEnrolled =
                       Append(Course[courseId].studentsEnrolled, userId)
             /\ ~Course[courseId].exists => db' = db]_vars

\* ------------------------------------------------------------------------
\* Completed lessons and the content of the course
\* ------------------------------------------------------------------------

\* the lessons in the sections of course c
LessonsOf(c) ==
  UNION {{Section[sec].subSection[k] : k \in DOMAIN Section[sec].subSection} :
           sec \in {x \in {Course[c].courseContent[j] : j \in DOMAIN Course[c].courseContent} :
                      Section[x].exists}}

\* C29: in every reachable state each lesson id in the completedVideos of a
\* ProgressRecord is a lesson of a section of the record's course, so the
\* number of completed lessons is at most the number of lessons of the course,
\* also after a lesson was deleted and when the id of a lesson outside the
\* course was submitted.
C29_CompletedAreLessonsOfCourse ==
  \A i \in DOMAIN CourseProgress :
    LET c == CourseProgress[i].made.courseID
    IN Course[c].exists
         => /\ \A k \in DOMAIN CourseProgress[i].completedVideos :
                 CourseProgress[i].completedVideos[k] \in LessonsOf(c)
            /\ Len(CourseProgress[i].completedVideos) <= SumLen(Course[c].courseContent)

\* ------------------------------------------------------------------------
\* Ownership of the ProgressRecords
\* ------------------------------------------------------------------------

\* C30: a mark-complete request changes the completedVideos of no
\* ProgressRecord but those of the authenticated requester: a request
\* authenticated as student A leaves every record created for another student
\* as it was.
C30_MarkChangesOwnRecordOnly ==
  [][(Quiet /\ CourseProgress' # CourseProgress)
       => \A caller \in RouteCallers, u \in Users, c \in Courses, l \in MarkLessons :
            RouteUpdateCourseProgress(caller, u, c, l)
              => \A i \in DOMAIN CourseProgress :
                   CourseProgress[i].made.userID # caller.id
                     => CourseProgress'[i].completedVideos =
                          CourseProgress[i].completedVideos]_vars

====
